---- MODULE Spec2Model ----
(***************************************************************************)
(* Offline-first synchronisation core of air-todoist-standalone:           *)
(* the Dexie local store (src/src/db/index.ts), the Zustand store and its  *)
(* reconciliation run (src/src/store/index.ts), the connectivity listeners *)
(* (store/index.ts and components/SyncStatusIndicator.tsx) and the remote  *)
(* gateway as seen by the client (src/src/api/airtable.ts).                *)
(***************************************************************************)
EXTENDS Integers, Sequences, FiniteSets, TLC

\* ------------------------------------------------------------------ bounds
MaxLocal  == 1   \* offline creates (temporary ids minted)
MaxRemote == 3   \* highest record id the remote store issues
MaxQueue  == 2   \* queue items ever enqueued (++id sequence)
MaxRuns   == 2   \* invocations of syncPendingChanges that pass the online test
MaxClock  == 1   \* readings of Date.now() are 0..MaxClock
MaxMuts   == 2   \* invocations of createTask/updateTask/deleteTask made online
MaxFaults == 1   \* writes the Local Store rejects
MaxReqs   == 3   \* invocations of rateLimitedFetch
MaxTicks  == 6   \* the gateway's clock runs for MaxTicks half intervals
MaxAttempts == 3 \* the attempts counter of a queue item holds 0..MaxAttempts

\* ---------------------------------------------------------- program constants
MIN_REQUEST_INTERVAL == 200      \* milliseconds

\* ------------------------------------------------------------- data model
Absent    == "absent"      \* a property that the object does not have
AbsentNum == -1            \* the same, for a numeric property
Null      == "null"

LocalId(n)  == <<"local_", n>>
RemoteId(n) == <<"rec", n>>
IsLocalId(id) == id[1] = "local_"

\* primary-key order of the tasks table ("local_..." sorts before "rec...")
IdLess(a, b) ==
    \/ a[1] = "local_" /\ b[1] = "rec"
    \/ a[1] = b[1] /\ a[2] < b[2]

\* Partial<Task> values the UI passes to createTask / updateTask
CreateInputs == { [name |-> "c", status |-> Absent] }
UpdateInputs == { [name |-> "b", status |-> Absent] }
NoPayload    == [name |-> Absent, status |-> Absent]

VARIABLES
    isOnline,         \* store: isOnline
    isSyncing,        \* store: isSyncing
    syncError,        \* store: syncError (Null or a message)
    lastSyncTime,     \* store: lastSyncTime
    tasks,            \* store: tasks (in-memory array)
    dbTasks,          \* db.tasks, a function from id to row
    syncQueue,        \* db.syncQueue, a function from sequence id to item
    nextQueueId,      \* the ++id generator of db.syncQueue
    dbLastSync,       \* db.metadata 'lastSync'
    remote,           \* the remote task table, a function from id to fields
    nextRemote,       \* next record id the remote store issues
    nextLocal,        \* next temporary id createTaskLocally mints
    now,              \* Date.now()
    runs,             \* the invocations of syncPendingChanges
    fetches,          \* the invocations of fetchAllData (r: the one run r awaits)
    indicatorMounted, \* SyncStatusIndicator's effect has registered its listeners
    muts,             \* the invocations of createTask/updateTask/deleteTask made online
    storeFaults,      \* how many writes the Local Store has rejected
    requests,         \* gateway: the invocations of rateLimitedFetch
    lastRequestTime,  \* gateway: lastRequestTime
    gwNow             \* gateway: Date.now() in milliseconds

gatewayVars == << requests, lastRequestTime, gwNow >>

vars == << isOnline, isSyncing, syncError, lastSyncTime, tasks, dbTasks,
           syncQueue, nextQueueId, dbLastSync, remote, nextRemote, nextLocal,
           now, runs, fetches, indicatorMounted, muts, storeFaults, gatewayVars >>

\* ---------------------------------------------------------------- helpers
NoId == <<"none", 0>>      \* an absent id-valued property

Range(s) == { s[i] : i \in DOMAIN s }

MinId(S) == CHOOSE a \in S : \A b \in S \ {a} : IdLess(a, b)

RECURSIVE SortIds(_)
SortIds(S) == IF S = {} THEN << >>
              ELSE << MinId(S) >> \o SortIds(S \ {MinId(S)})

\* mutant: a load that returns the synced rows only
ToArray_SyncedOnly(tbl) ==
    LET ids == { k \in DOMAIN tbl : tbl[k]._syncStatus = "synced" }
    IN  [ i \in 1..Cardinality(ids) |-> tbl[SortIds(ids)[i]] ]

\* Dexie Table.toArray(): the rows in primary-key order
ToArray(tbl) == [ i \in 1..Cardinality(DOMAIN tbl) |-> tbl[SortIds(DOMAIN tbl)[i]] ]

\* Dexie Table.put / Table.add of a row keyed by row.id
TablePut(tbl, row) ==
    [ k \in DOMAIN tbl \cup {row.id} |-> IF k = row.id THEN row ELSE tbl[k] ]

\* Dexie Table.delete(key): deleting an absent key is not an error
TableDelete(tbl, id) == [ k \in DOMAIN tbl \ {id} |-> tbl[k] ]

\* { ...t, ...updates } restricted to the domain fields
Merge(t, updates) ==
    [ t EXCEPT !.name   = IF updates.name   # Absent THEN updates.name   ELSE @,
               !.status = IF updates.status # Absent THEN updates.status ELSE @ ]

\* Dexie Table.update(key, changes) of updateTaskLocally: 0 rows when absent
TableUpdatePending(tbl, id, updates, t) ==
    IF id \in DOMAIN tbl
    THEN [ tbl EXCEPT ![id] = [ Merge(@, updates) EXCEPT !._syncStatus = "pending",
                                                        !._modifiedAt = t ] ]
    ELSE tbl

\* ----------------------------------------------------------- remote gateway
\* mapTaskFromAirtable: the Task the gateway returns for a remote record
mapTaskFromAirtable(id, f) ==
    [ id |-> id, name |-> f.name, status |-> f.status,
      _localId |-> NoId, _syncStatus |-> Absent,
      _modifiedAt |-> AbsentNum, _createdAt |-> AbsentNum ]

\* api.createTask: the fields the remote record gets from a payload
CreateFields(task) ==
    [ name   |-> IF task.name \in {Absent, ""} THEN "" ELSE task.name,
      status |-> IF task.status \in {Absent, Null} THEN Null ELSE task.status ]

\* api.updateTask: the PATCH applied to a remote record
UpdateFields(f, updates) ==
    [ name   |-> IF updates.name   # Absent THEN updates.name ELSE f.name,
      status |-> IF updates.status # Absent THEN updates.status ELSE f.status ]

\* api.fetchAllData: every remote task, mapped
FetchedTasks(rem) ==
    [ i \in 1..Cardinality(DOMAIN rem) |->
        mapTaskFromAirtable(SortIds(DOMAIN rem)[i], rem[SortIds(DOMAIN rem)[i]]) ]

\* ------------------------------------------------------------- local store
\* saveAllToLocal: the tasks table after the transaction
saveAllToLocal(tbl, data, t) ==
    LET kept  == [ k \in { i \in DOMAIN tbl : tbl[i]._syncStatus # "synced" } |-> tbl[k] ]
        fresh == { [ data[i] EXCEPT !._syncStatus = "synced", !._modifiedAt = t ]
                   : i \in DOMAIN data }
    IN  [ k \in DOMAIN kept \cup { r.id : r \in fresh } |->
            IF \E r \in fresh : r.id = k
            THEN CHOOSE r \in fresh : r.id = k
            ELSE kept[k] ]

\* addToSyncQueue: the queue after db.syncQueue.add
addToSyncQueue(q, qid, item, t) ==
    [ k \in DOMAIN q \cup {qid} |->
        IF k = qid
        THEN [ id |-> qid, type |-> item.type, table |-> item.table,
               recordId |-> item.recordId, localId |-> item.localId,
               payload |-> item.payload, createdAt |-> t,
               attempts |-> 0, lastError |-> Absent ]
        ELSE q[k] ]

\* the createdAt index: by createdAt, ties by primary key
QueueLess(a, b) ==
    \/ a.createdAt < b.createdAt
    \/ a.createdAt = b.createdAt /\ a.id < b.id

MinItem(S) == CHOOSE a \in S : \A b \in S \ {a} : QueueLess(a, b)

RECURSIVE SortItems(_)
SortItems(S) == IF S = {} THEN << >>
                ELSE << MinItem(S) >> \o SortItems(S \ {MinItem(S)})

\* mutant: the snapshot in descending order (orderBy('createdAt').reverse())
getPendingSyncItems_Reversed(q) ==
    LET s == SortItems({ q[k] : k \in DOMAIN q })
    IN  [ i \in 1..Len(s) |-> s[Len(s) + 1 - i] ]

\* getPendingSyncItems: db.syncQueue.orderBy('createdAt').toArray()
getPendingSyncItems(q) == SortItems({ q[k] : k \in DOMAIN q })

\* mutant: removal by position in an array, where an absent id gives
\* indexOf = -1 and splice(-1, 1) removes the last item
removeSyncQueueItem_Splice(q, id) ==
    IF id \in DOMAIN q \/ DOMAIN q = {}
    THEN [ k \in DOMAIN q \ {id} |-> q[k] ]
    ELSE LET last == CHOOSE m \in DOMAIN q : \A k \in DOMAIN q : k <= m
         IN  [ k \in DOMAIN q \ {last} |-> q[k] ]

\* mutant: the ack that removes nothing
removeSyncQueueItem_Noop(q, id) == q

\* removeSyncQueueItem: db.syncQueue.delete(id)
removeSyncQueueItem(q, id) == [ k \in DOMAIN q \ {id} |-> q[k] ]

\* item.attempts + 1 in a counter of finite width: a JavaScript number stops
\* growing at 2^53 (n + 1 = n there), the model's counter at MaxAttempts
Incremented(n) == IF n < MaxAttempts THEN n + 1 ELSE MaxAttempts

\* updateSyncQueueItem: db.syncQueue.update(id, {attempts, lastError})
updateSyncQueueItem(q, id, attempts, lastError) ==
    IF id \in DOMAIN q
    THEN [ q EXCEPT ![id].attempts = attempts, ![id].lastError = lastError ]
    ELSE q

\* createTaskLocally: the row it adds
LocalTask(localId, task, t) ==
    [ id |-> localId,
      name   |-> IF task.name \in {Absent, ""} THEN "" ELSE task.name,
      status |-> IF task.status \in {Absent, Null} THEN "Inbox" ELSE task.status,
      _localId |-> localId, _syncStatus |-> "pending",
      _modifiedAt |-> t, _createdAt |-> t ]

\* the row syncPendingChanges puts after a CREATE was accepted
ReconciledTask(payload, newId, t) ==
    [ id |-> newId, name |-> payload.name, status |-> payload.status,
      _localId |-> NoId, _syncStatus |-> "synced",
      _modifiedAt |-> t, _createdAt |-> AbsentNum ]


\* ------------------------------------------------------------------- state
Runs     == 1..MaxRuns
Fetchers == Runs                \* run r awaits fetchAllData invocation r

NoRow == [ id |-> NoId, name |-> Absent, status |-> Absent, _localId |-> NoId,
           _syncStatus |-> Absent, _modifiedAt |-> AbsentNum, _createdAt |-> AbsentNum ]

\* pc, snap (pendingItems), idx (the loop's position), newId (newTask.id) and
\* err (the caught error) are the invocation's locals; before and done record
\* history: the row the CREATE case deleted, and the outcome of each finished
\* iteration of the loop
EmptyRun   == [ pc |-> "idle", snap |-> << >>, idx |-> 0, newId |-> NoId, err |-> Absent,
                before |-> NoRow, done |-> << >> ]
DoneRun    == [ EmptyRun EXCEPT !.pc = "done" ]

\* mutant: an invocation made offline that goes on to read the queue
RefusedRun_Started == [ EmptyRun EXCEPT !.pc = "getPending" ]

\* an invocation that returned at the test of isOnline
RefusedRun == [ EmptyRun EXCEPT !.pc = "refused" ]
EmptyFetch == [ pc |-> "idle", data |-> << >>, t |-> AbsentNum ]
DoneFetch  == [ EmptyFetch EXCEPT !.pc = "done" ]

EmptyTable == [ k \in {} |-> NoPayload ]

Muts == 1..MaxMuts
Reqs == 1..MaxReqs

\* kind, taskId, input (taskData or updates) and snap (the tasks read by get()
\* on entry) are the locals of one invocation of a mutation of the store
EmptyMut == [ pc |-> "idle", kind |-> Absent, taskId |-> NoId, input |-> NoPayload,
              snap |-> << >> ]
DoneMut  == [ EmptyMut EXCEPT !.pc = "done" ]       \* returned after the try block
FailedMut == [ EmptyMut EXCEPT !.pc = "failed" ]    \* returned after the catch block

\* wake: when the timer of a suspended invocation is due; at: when the
\* invocation handed its request to airtableFetch
EmptyRequest == [ pc |-> "idle", wake |-> AbsentNum, at |-> AbsentNum ]

Init ==
    /\ isOnline = TRUE                      \* navigator.onLine
    /\ isSyncing = FALSE
    /\ syncError = Null
    /\ lastSyncTime = 0
    \* App has mounted and its fetchAllData has returned: one task, fetched
    \* and saved by the refetch
    /\ tasks = << mapTaskFromAirtable(RemoteId(1), [ name |-> "a", status |-> "Inbox" ]) >>
    /\ dbTasks = [ k \in {RemoteId(1)} |->
                     [ id |-> RemoteId(1), name |-> "a", status |-> "Inbox",
                       _localId |-> NoId, _syncStatus |-> "synced",
                       _modifiedAt |-> 0, _createdAt |-> AbsentNum ] ]
    /\ syncQueue = EmptyTable
    /\ nextQueueId = 1
    /\ dbLastSync = 0
    /\ remote = [ k \in {RemoteId(1)} |-> [ name |-> "a", status |-> "Inbox" ] ]
    /\ nextRemote = 2
    /\ nextLocal = 1
    /\ now = 0
    /\ runs = [ r \in Runs |-> EmptyRun ]
    /\ fetches = [ f \in Fetchers |-> EmptyFetch ]
    /\ indicatorMounted \in BOOLEAN
    /\ muts = [ m \in Muts |-> EmptyMut ]
    /\ storeFaults = 0
    /\ requests = [ c \in Reqs |-> EmptyRequest ]
    /\ lastRequestTime = 0
    \* Date.now() is far more than one interval after the epoch
    /\ gwNow = MIN_REQUEST_INTERVAL

NumStarted == Cardinality({ r \in Runs : runs[r].pc # "idle" })
ActiveRuns == { r \in Runs : runs[r].pc \notin {"idle", "done", "refused"} }
TaskIds    == { tasks[i].id : i \in DOMAIN tasks }

\* the readings Date.now() can give at the next mutation: the clock has not
\* moved since the last one, or it has
Clock == { t \in {now, now + 1} : t <= MaxClock }

\* ------------------------------------------------- mutations while offline
\* createTask, isOnline = false: db.createTaskLocally, then set({tasks})
createTaskOffline(taskData, t) ==
    /\ ~isOnline
    /\ t \in Clock
    /\ now' = t
    /\ nextLocal <= MaxLocal
    /\ nextQueueId <= MaxQueue
    /\ LET localId == LocalId(nextLocal)
           newTask == LocalTask(localId, taskData, t)
       IN  /\ dbTasks' = TablePut(dbTasks, newTask)
           /\ syncQueue' = addToSyncQueue(syncQueue, nextQueueId,
                              [ type |-> "CREATE", table |-> "tasks",
                                recordId |-> localId, localId |-> localId,
                                payload |-> taskData ], t)
           /\ tasks' = Append(tasks, newTask)
    /\ nextLocal' = nextLocal + 1
    /\ nextQueueId' = nextQueueId + 1
    /\ UNCHANGED << isOnline, isSyncing, syncError, lastSyncTime, dbLastSync,
                    remote, nextRemote, runs, fetches, indicatorMounted, muts, storeFaults, gatewayVars >>

\* updateTask, isOnline = false: optimistic set, then db.updateTaskLocally
updateTaskOffline(taskId, updates, t) ==
    /\ ~isOnline
    /\ t \in Clock
    /\ now' = t
    /\ taskId \in TaskIds
    /\ nextQueueId <= MaxQueue
    /\ tasks' = [ i \in DOMAIN tasks |->
                    IF tasks[i].id = taskId THEN Merge(tasks[i], updates) ELSE tasks[i] ]
    /\ dbTasks' = TableUpdatePending(dbTasks, taskId, updates, t)
    /\ syncQueue' = addToSyncQueue(syncQueue, nextQueueId,
                       [ type |-> "UPDATE", table |-> "tasks",
                         recordId |-> taskId, localId |-> NoId,
                         payload |-> updates ], t)
    /\ nextQueueId' = nextQueueId + 1
    /\ UNCHANGED << isOnline, isSyncing, syncError, lastSyncTime, dbLastSync,
                    remote, nextRemote, nextLocal, runs, fetches,
                    indicatorMounted, muts, storeFaults, gatewayVars >>

\* tasks.filter(t => t.id !== taskId)
WithoutTask(ts, taskId) == SelectSeq(ts, LAMBDA t : t.id # taskId)

\* deleteTaskLocally takes its short cut for a local-only pending row
IsLocalOnly(tbl, taskId) ==
    /\ taskId \in DOMAIN tbl
    /\ tbl[taskId]._localId # NoId
    /\ tbl[taskId]._syncStatus = "pending"

\* deleteTask, isOnline = false: optimistic set, then db.deleteTaskLocally.
\* The short cut deletes the row and then queries syncQueue by 'localId',
\* which the schema does not index: Dexie rejects the query, the queue is
\* untouched and deleteTask's catch restores the snapshot of tasks.
deleteTaskOffline(taskId, t) ==
    /\ ~isOnline
    /\ t \in Clock
    /\ now' = t
    /\ taskId \in TaskIds
    /\ IF IsLocalOnly(dbTasks, taskId)
       THEN /\ t = now
            /\ dbTasks' = TableDelete(dbTasks, taskId)
            /\ UNCHANGED << tasks, syncQueue, nextQueueId >>
       ELSE /\ nextQueueId <= MaxQueue
            /\ dbTasks' = TableDelete(dbTasks, taskId)
            /\ syncQueue' = addToSyncQueue(syncQueue, nextQueueId,
                               [ type |-> "DELETE", table |-> "tasks",
                                 recordId |-> taskId, localId |-> NoId,
                                 payload |-> NoPayload ], t)
            /\ nextQueueId' = nextQueueId + 1
            /\ tasks' = WithoutTask(tasks, taskId)
    /\ UNCHANGED << isOnline, isSyncing, syncError, lastSyncTime, dbLastSync,
                    remote, nextRemote, nextLocal, runs, fetches,
                    indicatorMounted, muts, storeFaults, gatewayVars >>

\* ------------------------------------------------------------ connectivity
\* syncPendingChanges up to its first await, with isOnline = true:
\* n invocations started one after the other
StartRuns(rs, n) ==
    [ r \in Runs |->
        IF rs[r].pc = "idle"
           /\ Cardinality({ q \in Runs : q < r /\ rs[q].pc = "idle" }) < n
        THEN [ rs[r] EXCEPT !.pc = "getPending" ]
        ELSE rs[r] ]

\* the window 'online' event: the store's listener calls setOnlineStatus(true),
\* which starts a run when it was offline; then, when mounted, the indicator's
\* handleOnline calls setOnlineStatus(true) and syncPendingChanges() itself
OnlineEvent ==
    /\ ~isOnline
    /\ LET n == IF indicatorMounted THEN 2 ELSE 1
       IN  /\ NumStarted + n <= MaxRuns
           /\ runs' = StartRuns(runs, n)
    /\ isOnline' = TRUE
    /\ isSyncing' = TRUE
    /\ UNCHANGED << syncError, lastSyncTime, tasks, dbTasks, syncQueue,
                    nextQueueId, dbLastSync, remote, nextRemote, nextLocal, now,
                    fetches, indicatorMounted, muts, storeFaults, gatewayVars >>

\* the window 'offline' event: both listeners call setOnlineStatus(false)
OfflineEvent ==
    /\ isOnline
    /\ isOnline' = FALSE
    /\ UNCHANGED << isSyncing, syncError, lastSyncTime, tasks, dbTasks, syncQueue,
                    nextQueueId, dbLastSync, remote, nextRemote, nextLocal, now,
                    runs, fetches, indicatorMounted, muts, storeFaults, gatewayVars >>

\* a sync button (App, Sidebar: disabled while isSyncing; the indicator's
\* handleSync: isOnline && !isSyncing) calls syncPendingChanges
ManualSync ==
    /\ ~isSyncing
    /\ isOnline
    /\ NumStarted + 1 <= MaxRuns
    /\ runs' = StartRuns(runs, 1)
    /\ isSyncing' = TRUE
    /\ UNCHANGED << isOnline, syncError, lastSyncTime, tasks, dbTasks, syncQueue,
                    nextQueueId, dbLastSync, remote, nextRemote, nextLocal, now,
                    fetches, indicatorMounted, muts, storeFaults, gatewayVars >>

\* the sync button of App's header (disabled while isSyncing, not while
\* offline; Sidebar renders its button only while online) calls
\* syncPendingChanges with isOnline = false: the invocation shows its toast
\* and returns
syncPendingChangesOffline ==
    /\ ~isSyncing
    /\ ~isOnline
    /\ NumStarted + 1 <= MaxRuns
    /\ runs' = [ r \in Runs |->
                  IF runs[r].pc = "idle" /\ \A q \in Runs : q < r => runs[q].pc # "idle"
                  THEN RefusedRun ELSE runs[r] ]
    /\ UNCHANGED << isOnline, isSyncing, syncError, lastSyncTime, tasks, dbTasks,
                    syncQueue, nextQueueId, dbLastSync, remote, nextRemote, nextLocal,
                    now, fetches, indicatorMounted, muts, storeFaults, gatewayVars >>

\* ------------------------------------------------------------ fetchAllData
\* fetchAllData up to its first await: reads isOnline, clears syncError
FetchStarted(fs, f, online) ==
    [ fs EXCEPT ![f] = [ EmptyFetch EXCEPT !.pc = IF online THEN "api" ELSE "local" ] ]

\* fetchAllData returns: the run that awaited it shows its toast and runs its
\* finally block (the await of getAllFilters before the return changes no
\* modelled state and is folded into the step before)
FetchReturned(f) ==
    /\ fetches' = [ fetches EXCEPT ![f] = DoneFetch ]
    /\ runs' = [ runs EXCEPT ![f] = DoneRun ]
    /\ isSyncing' = FALSE

\* api.fetchAllData resolves with the remote tables
FetchApiOk(f) ==
    /\ fetches[f].pc = "api"
    /\ isOnline
    /\ fetches' = [ fetches EXCEPT ![f].pc = "save", ![f].data = FetchedTasks(remote) ]
    /\ UNCHANGED << isOnline, isSyncing, syncError, lastSyncTime, tasks, dbTasks,
                    syncQueue, nextQueueId, dbLastSync, remote, nextRemote,
                    nextLocal, now, runs, indicatorMounted, muts, storeFaults, gatewayVars >>

\* api.fetchAllData rejects: the catch sets syncError and starts the fallback load
FetchApiFail(f) ==
    /\ fetches[f].pc = "api"
    /\ fetches' = [ fetches EXCEPT ![f].pc = "fallback" ]
    /\ syncError' = "Failed to fetch data"
    /\ UNCHANGED << isOnline, isSyncing, lastSyncTime, tasks, dbTasks, syncQueue,
                    nextQueueId, dbLastSync, remote, nextRemote, nextLocal, now,
                    runs, indicatorMounted, muts, storeFaults, gatewayVars >>

\* the transaction of db.saveAllToLocal commits
FetchSave(f) ==
    /\ fetches[f].pc = "save"
    /\ dbTasks' = saveAllToLocal(dbTasks, fetches[f].data, now)
    /\ fetches' = [ fetches EXCEPT ![f].pc = "meta", ![f].t = now ]
    /\ UNCHANGED << isOnline, isSyncing, syncError, lastSyncTime, tasks, syncQueue,
                    nextQueueId, dbLastSync, remote, nextRemote, nextLocal, now,
                    runs, indicatorMounted, muts, storeFaults, gatewayVars >>

\* db.metadata.put of saveAllToLocal, then set({tasks: data.tasks, lastSyncTime})
FetchMeta(f) ==
    /\ fetches[f].pc = "meta"
    /\ dbLastSync' = fetches[f].t
    /\ tasks' = fetches[f].data
    /\ lastSyncTime' = now
    /\ FetchReturned(f)
    /\ UNCHANGED << isOnline, syncError, dbTasks, syncQueue, nextQueueId, remote,
                    nextRemote, nextLocal, now, indicatorMounted, muts, storeFaults, gatewayVars >>

\* offline branch: the toArray() reads resolve
FetchLocal(f) ==
    /\ fetches[f].pc = "local"
    /\ fetches' = [ fetches EXCEPT ![f].pc = "localMeta", ![f].data = ToArray(dbTasks) ]
    /\ UNCHANGED << isOnline, isSyncing, syncError, lastSyncTime, tasks, dbTasks,
                    syncQueue, nextQueueId, dbLastSync, remote, nextRemote,
                    nextLocal, now, runs, indicatorMounted, muts, storeFaults, gatewayVars >>

\* offline branch: getLastSyncTime resolves, then set({tasks, lastSyncTime})
FetchLocalMeta(f) ==
    /\ fetches[f].pc = "localMeta"
    /\ tasks' = fetches[f].data
    /\ lastSyncTime' = dbLastSync
    /\ FetchReturned(f)
    /\ UNCHANGED << isOnline, syncError, dbTasks, syncQueue, nextQueueId,
                    dbLastSync, remote, nextRemote, nextLocal, now,
                    indicatorMounted, muts, storeFaults, gatewayVars >>

\* catch branch: the fallback reads resolve, then set({tasks})
FetchFallback(f) ==
    /\ fetches[f].pc = "fallback"
    /\ tasks' = ToArray(dbTasks)
    /\ FetchReturned(f)
    /\ UNCHANGED << isOnline, syncError, lastSyncTime, dbTasks, syncQueue,
                    nextQueueId, dbLastSync, remote, nextRemote, nextLocal, now,
                    indicatorMounted, muts, storeFaults, gatewayVars >>

\* ------------------------------------------------------ syncPendingChanges
Item(r) == runs[r].snap[runs[r].idx]

\* getPendingSyncItems resolves: the run takes its snapshot and issues the
\* first item's remote call, or calls fetchAllData when the snapshot is empty
RunGetPending(r) ==
    /\ runs[r].pc = "getPending"
    /\ LET snap == getPendingSyncItems(syncQueue)
       IN  IF snap = << >>
           THEN /\ runs' = [ runs EXCEPT ![r].pc = "fetch" ]
                /\ fetches' = FetchStarted(fetches, r, isOnline)
                /\ syncError' = Null
           ELSE /\ runs' = [ runs EXCEPT ![r].pc = "call", ![r].snap = snap, ![r].idx = 1 ]
                /\ UNCHANGED << fetches, syncError >>
    /\ UNCHANGED << isOnline, isSyncing, lastSyncTime, tasks, dbTasks, syncQueue,
                    nextQueueId, dbLastSync, remote, nextRemote, nextLocal, now,
                    indicatorMounted, muts, storeFaults, gatewayVars >>

\* the end of one iteration of the for loop: the next item's remote call is
\* issued, or fetchAllData is called after the last item
NextItem(r, rs, outcome) ==
    IF rs[r].idx < Len(rs[r].snap)
    THEN /\ runs' = [ rs EXCEPT ![r].pc = "call", ![r].idx = @ + 1,
                                ![r].newId = NoId, ![r].err = Absent,
                                ![r].before = NoRow, ![r].done = Append(@, outcome) ]
         /\ UNCHANGED << fetches, syncError >>
    ELSE /\ runs' = [ rs EXCEPT ![r].pc = "fetch", ![r].newId = NoId, ![r].err = Absent,
                                ![r].before = NoRow, ![r].done = Append(@, outcome) ]
         /\ fetches' = FetchStarted(fetches, r, isOnline)
         /\ syncError' = Null

\* the remote store accepts the call of the current item
RunCallOk(r) ==
    /\ runs[r].pc = "call"
    /\ isOnline
    /\ LET item == Item(r)
       IN  CASE item.type = "CREATE" ->
                  /\ nextRemote <= MaxRemote
                  /\ remote' = [ k \in DOMAIN remote \cup {RemoteId(nextRemote)} |->
                                   IF k = RemoteId(nextRemote)
                                   THEN CreateFields(item.payload) ELSE remote[k] ]
                  /\ nextRemote' = nextRemote + 1
                  /\ runs' = [ runs EXCEPT ![r].pc = "del", ![r].newId = RemoteId(nextRemote) ]
             [] item.type = "UPDATE" ->
                  /\ item.recordId \in DOMAIN remote
                  /\ remote' = [ remote EXCEPT ![item.recordId] = UpdateFields(@, item.payload) ]
                  /\ runs' = [ runs EXCEPT ![r].pc = "ack" ]
                  /\ UNCHANGED nextRemote
             [] item.type = "DELETE" ->
                  /\ item.recordId \in DOMAIN remote
                  /\ remote' = [ k \in DOMAIN remote \ {item.recordId} |-> remote[k] ]
                  /\ runs' = [ runs EXCEPT ![r].pc = "ack" ]
                  /\ UNCHANGED nextRemote
    /\ UNCHANGED << isOnline, isSyncing, syncError, lastSyncTime, tasks, dbTasks,
                    syncQueue, nextQueueId, dbLastSync, nextLocal, now, fetches,
                    indicatorMounted, muts, storeFaults, gatewayVars >>

\* the call of the current item rejects (transport error, or a remote
\* rejection such as an unknown record id)
RunCallFail(r) ==
    /\ runs[r].pc = "call"
    /\ runs' = [ runs EXCEPT ![r].pc = "fail", ![r].err = "Airtable API Error" ]
    /\ UNCHANGED << isOnline, isSyncing, syncError, lastSyncTime, tasks, dbTasks,
                    syncQueue, nextQueueId, dbLastSync, remote, nextRemote,
                    nextLocal, now, fetches, indicatorMounted, muts, storeFaults, gatewayVars >>

\* CREATE case: db.tasks.delete(item.localId)
RunDelete(r) ==
    /\ runs[r].pc = "del"
    /\ dbTasks' = TableDelete(dbTasks, Item(r).localId)
    /\ runs' = [ runs EXCEPT ![r].pc = "put",
                              ![r].before = IF Item(r).localId \in DOMAIN dbTasks
                                            THEN dbTasks[Item(r).localId] ELSE NoRow ]
    /\ UNCHANGED << isOnline, isSyncing, syncError, lastSyncTime, tasks, syncQueue,
                    nextQueueId, dbLastSync, remote, nextRemote, nextLocal, now,
                    fetches, indicatorMounted, muts, storeFaults, gatewayVars >>

\* CREATE case: db.tasks.put({...item.payload, id: newTask.id, ...})
RunPut(r) ==
    /\ runs[r].pc = "put"
    /\ dbTasks' = TablePut(dbTasks, ReconciledTask(Item(r).payload, runs[r].newId, now))
    /\ runs' = [ runs EXCEPT ![r].pc = "ack" ]
    /\ UNCHANGED << isOnline, isSyncing, syncError, lastSyncTime, tasks, syncQueue,
                    nextQueueId, dbLastSync, remote, nextRemote, nextLocal, now,
                    fetches, indicatorMounted, muts, storeFaults, gatewayVars >>

\* db.removeSyncQueueItem(item.id) resolves
RunAck(r) ==
    /\ runs[r].pc = "ack"
    /\ syncQueue' = removeSyncQueueItem(syncQueue, Item(r).id)
    /\ NextItem(r, runs, "ok")
    /\ UNCHANGED << isOnline, isSyncing, lastSyncTime, tasks, dbTasks, nextQueueId,
                    dbLastSync, remote, nextRemote, nextLocal, now, indicatorMounted, muts, storeFaults, gatewayVars >>

\* the catch of the loop body: db.updateSyncQueueItem resolves
RunFail(r) ==
    /\ runs[r].pc = "fail"
    /\ syncQueue' = updateSyncQueueItem(syncQueue, Item(r).id,
                                        Incremented(Item(r).attempts), runs[r].err)
    /\ NextItem(r, runs, "fail")
    /\ UNCHANGED << isOnline, isSyncing, lastSyncTime, tasks, dbTasks, nextQueueId,
                    dbLastSync, remote, nextRemote, nextLocal, now, indicatorMounted, muts, storeFaults, gatewayVars >>

\* ---------------------------------------- syncPendingChanges: store failures
\* a write to the Local Store made for the current item after its remote call
\* resolved (db.tasks.delete, db.tasks.put, db.removeSyncQueueItem) rejects:
\* the write does not land and the catch of the loop body takes over
RunStoreThrows(r) ==
    /\ runs[r].pc \in {"del", "put", "ack"}
    /\ storeFaults < MaxFaults
    /\ storeFaults' = storeFaults + 1
    /\ runs' = [ runs EXCEPT ![r].pc = "fail", ![r].err = "Local Store Error" ]
    /\ UNCHANGED << isOnline, isSyncing, syncError, lastSyncTime, tasks, dbTasks,
                    syncQueue, nextQueueId, dbLastSync, remote, nextRemote,
                    nextLocal, now, fetches, indicatorMounted, muts, gatewayVars >>

\* db.updateSyncQueueItem, awaited inside the catch of the loop body, rejects:
\* the error leaves the loop, the outer catch shows 'Sync failed' and the
\* finally block ends the run without fetchAllData
RunFailThrows(r) ==
    /\ runs[r].pc = "fail"
    /\ storeFaults < MaxFaults
    /\ storeFaults' = storeFaults + 1
    /\ runs' = [ runs EXCEPT ![r] = DoneRun ]
    /\ isSyncing' = FALSE
    /\ UNCHANGED << isOnline, syncError, lastSyncTime, tasks, dbTasks, syncQueue,
                    nextQueueId, dbLastSync, remote, nextRemote, nextLocal, now,
                    fetches, indicatorMounted, muts, gatewayVars >>

\* ------------------------------------------------- mutations while online
\* what is unchanged by every step of a mutation made online
directFrame == << isOnline, isSyncing, syncError, lastSyncTime, dbTasks, syncQueue,
                  nextQueueId, dbLastSync, nextLocal, now, runs, fetches,
                  indicatorMounted, storeFaults, gatewayVars >>

\* a mutation is invoked: it reads tasks by get() and runs up to its await
Invoke(m, kind, taskId, input) ==
    /\ isOnline
    /\ muts[m].pc = "idle"
    /\ \A k \in Muts : k < m => muts[k].pc # "idle"
    /\ muts' = [ muts EXCEPT ![m] = [ pc |-> "call", kind |-> kind, taskId |-> taskId,
                                      input |-> input, snap |-> tasks ] ]

\* createTask, isOnline = true, up to the await of api.createTask
createTaskOnline(m, taskData) ==
    /\ Invoke(m, "create", NoId, taskData)
    /\ UNCHANGED << tasks, remote, nextRemote, directFrame >>

\* updateTask, isOnline = true: optimistic set, up to the await of api.updateTask
updateTaskOnline(m, taskId, updates) ==
    /\ taskId \in TaskIds
    /\ Invoke(m, "update", taskId, updates)
    /\ tasks' = [ i \in DOMAIN tasks |->
                    IF tasks[i].id = taskId THEN Merge(tasks[i], updates) ELSE tasks[i] ]
    /\ UNCHANGED << remote, nextRemote, directFrame >>

\* deleteTask, isOnline = true: optimistic set, up to the await of api.deleteTask
deleteTaskOnline(m, taskId) ==
    /\ taskId \in TaskIds
    /\ Invoke(m, "delete", taskId, NoPayload)
    /\ tasks' = WithoutTask(tasks, taskId)
    /\ UNCHANGED << remote, nextRemote, directFrame >>

\* the gateway call of a mutation resolves: createTask appends the returned
\* task to the tasks it read on entry; updateTask and deleteTask set nothing
DirectCallOk(m) ==
    /\ muts[m].pc = "call"
    /\ isOnline
    /\ CASE muts[m].kind = "create" ->
              /\ nextRemote <= MaxRemote
              /\ remote' = [ k \in DOMAIN remote \cup {RemoteId(nextRemote)} |->
                               IF k = RemoteId(nextRemote)
                               THEN CreateFields(muts[m].input) ELSE remote[k] ]
              /\ nextRemote' = nextRemote + 1
              /\ tasks' = Append(muts[m].snap,
                                 mapTaskFromAirtable(RemoteId(nextRemote),
                                                     CreateFields(muts[m].input)))
         [] muts[m].kind = "update" ->
              /\ muts[m].taskId \in DOMAIN remote
              /\ remote' = [ remote EXCEPT ![muts[m].taskId] = UpdateFields(@, muts[m].input) ]
              /\ UNCHANGED << tasks, nextRemote >>
         [] muts[m].kind = "delete" ->
              /\ muts[m].taskId \in DOMAIN remote
              /\ remote' = [ k \in DOMAIN remote \ {muts[m].taskId} |-> remote[k] ]
              /\ UNCHANGED << tasks, nextRemote >>
    /\ muts' = [ muts EXCEPT ![m] = DoneMut ]
    /\ UNCHANGED directFrame

\* mutant: the catch that does not restore the snapshot
RevertOptimistic_Forgotten(kind, current, snap) == current

\* the catch of a mutation: updateTask and deleteTask set({tasks}) from the
\* tasks they read on entry, createTask sets nothing
RevertOptimistic(kind, current, snap) == IF kind = "create" THEN current ELSE snap

\* the gateway call of a mutation rejects (transport error, or a remote
\* rejection such as an unknown record id)
DirectCallFail(m) ==
    /\ muts[m].pc = "call"
    /\ tasks' = RevertOptimistic(muts[m].kind, tasks, muts[m].snap)
    /\ muts' = [ muts EXCEPT ![m] = FailedMut ]
    /\ UNCHANGED << remote, nextRemote, directFrame >>

\* ---------------------------------------------------------- rateLimitedFetch
syncVars == << isOnline, isSyncing, syncError, lastSyncTime, tasks, dbTasks,
               syncQueue, nextQueueId, dbLastSync, remote, nextRemote, nextLocal,
               now, runs, fetches, indicatorMounted, muts, storeFaults >>

\* rateLimitedFetch up to its first await: it reads the clock and
\* lastRequestTime, and either suspends on a timer for the rest of the
\* interval or stamps lastRequestTime and calls airtableFetch
rateLimitedFetch(c) ==
    /\ requests[c].pc = "idle"
    /\ \A d \in Reqs : d < c => requests[d].pc # "idle"
    /\ LET timeSinceLastRequest == gwNow - lastRequestTime
       IN  IF timeSinceLastRequest < MIN_REQUEST_INTERVAL
           THEN /\ requests' = [ requests EXCEPT ![c].pc = "sleep",
                       ![c].wake = gwNow + (MIN_REQUEST_INTERVAL - timeSinceLastRequest) ]
                /\ UNCHANGED lastRequestTime
           ELSE /\ requests' = [ requests EXCEPT ![c].pc = "sent", ![c].at = gwNow ]
                /\ lastRequestTime' = gwNow
    /\ UNCHANGED << gwNow, syncVars >>

\* the timer of a suspended invocation fires (on time or late): the
\* invocation stamps lastRequestTime and calls airtableFetch
TimerFires(c) ==
    /\ requests[c].pc = "sleep"
    /\ gwNow >= requests[c].wake
    /\ requests' = [ requests EXCEPT ![c].pc = "sent", ![c].at = gwNow ]
    /\ lastRequestTime' = gwNow
    /\ UNCHANGED << gwNow, syncVars >>

\* time passes: half an interval or a whole one
TimePasses(d) ==
    /\ d \in { MIN_REQUEST_INTERVAL \div 2, MIN_REQUEST_INTERVAL }
    /\ gwNow + d <= MIN_REQUEST_INTERVAL + MaxTicks * (MIN_REQUEST_INTERVAL \div 2)
    /\ gwNow' = gwNow + d
    /\ UNCHANGED << requests, lastRequestTime, syncVars >>

NextGateway ==
    \/ \E c \in Reqs : rateLimitedFetch(c)
    \/ \E c \in Reqs : TimerFires(c)
    \/ \E d \in { MIN_REQUEST_INTERVAL \div 2, MIN_REQUEST_INTERVAL } : TimePasses(d)

SpecGateway == Init /\ [][NextGateway]_vars

\* ------------------------------------------------------ SyncStatusIndicator
\* getSyncState of SyncStatusIndicator, as a function of the four values it reads
getSyncState(online, syncing, pendingCount, error) ==
    IF ~online THEN "offline"
    ELSE IF error # Null THEN "error"
    ELSE IF syncing THEN "syncing"
    ELSE IF pendingCount > 0 THEN "pending"
    ELSE "synced"


\* ------------------------------------------------------------ specification
Next ==
    \/ \E d \in CreateInputs, t \in Clock : createTaskOffline(d, t)
    \/ \E id \in TaskIds, u \in UpdateInputs, t \in Clock : updateTaskOffline(id, u, t)
    \/ \E id \in TaskIds, t \in Clock : deleteTaskOffline(id, t)
    \/ OnlineEvent
    \/ OfflineEvent
    \/ ManualSync
    \/ \E f \in Fetchers : FetchApiOk(f)
    \/ \E f \in Fetchers : FetchApiFail(f)
    \/ \E f \in Fetchers : FetchSave(f)
    \/ \E f \in Fetchers : FetchMeta(f)
    \/ \E f \in Fetchers : FetchLocal(f)
    \/ \E f \in Fetchers : FetchLocalMeta(f)
    \/ \E f \in Fetchers : FetchFallback(f)
    \/ \E r \in Runs : RunGetPending(r)
    \/ \E r \in Runs : RunCallOk(r)
    \/ \E r \in Runs : RunCallFail(r)
    \/ \E r \in Runs : RunDelete(r)
    \/ \E r \in Runs : RunPut(r)
    \/ \E r \in Runs : RunAck(r)
    \/ \E r \in Runs : RunFail(r)

Spec == Init /\ [][Next]_vars

\* the same, with the Local Store rejecting up to MaxFaults writes of a run,
\* in an application that does not render SyncStatusIndicator
NextFaults ==
    \/ Next
    \/ \E r \in Runs : RunStoreThrows(r)
    \/ \E r \in Runs : RunFailThrows(r)

InitFaults == Init /\ ~indicatorMounted

SpecFaults == InitFaults /\ [][NextFaults]_vars

\* the same as Next, with the sync button also pressed while offline
NextOffline ==
    \/ Next
    \/ syncPendingChangesOffline

SpecOffline == Init /\ [][NextOffline]_vars

\* ----------------------------------------------- progress of reconciliation
\* the remote store rejects the call of an UPDATE or DELETE item addressed to
\* an id it holds no record of (airtableFetch throws on a response that is
\* not ok); it rejects nothing else
RunCallRejected(r) ==
    /\ runs[r].pc = "call"
    /\ Item(r).type # "CREATE"
    /\ Item(r).recordId \notin DOMAIN remote
    /\ RunCallFail(r)

\* the connection is lost before any run was started
OfflineBeforeSync ==
    /\ NumStarted = 0
    /\ OfflineEvent

\* the steps of invocation r of syncPendingChanges and of the refetch it
\* awaits, against a remote store that accepts what it can
RunStep(r) ==
    \/ RunGetPending(r)
    \/ RunCallOk(r)
    \/ RunCallRejected(r)
    \/ RunDelete(r)
    \/ RunPut(r)
    \/ RunAck(r)
    \/ RunFail(r)
    \/ FetchApiOk(r)
    \/ FetchSave(r)
    \/ FetchMeta(r)

\* the sync button is pressed again after MaxRuns invocations were made: the
\* record of the earliest invocation that has returned is used for the new one
SyncAgain(r) ==
    /\ ~isSyncing
    /\ isOnline
    /\ NumStarted = MaxRuns
    /\ runs[r].pc \in {"done", "refused"}
    /\ \A q \in Runs : q < r => runs[q].pc \notin {"done", "refused"}
    /\ runs' = [ runs EXCEPT ![r] = [ EmptyRun EXCEPT !.pc = "getPending" ] ]
    /\ isSyncing' = TRUE
    /\ UNCHANGED << isOnline, syncError, lastSyncTime, tasks, dbTasks, syncQueue,
                    nextQueueId, dbLastSync, remote, nextRemote, nextLocal, now,
                    fetches, indicatorMounted, muts, storeFaults, gatewayVars >>

\* a session that works offline once, then regains the connection and keeps
\* it, and in which reconciliation is run again and again
NextLive ==
    \/ \E d \in CreateInputs, t \in Clock : createTaskOffline(d, t)
    \/ \E id \in TaskIds, u \in UpdateInputs, t \in Clock : updateTaskOffline(id, u, t)
    \/ \E id \in TaskIds, t \in Clock : deleteTaskOffline(id, t)
    \/ OfflineBeforeSync
    \/ OnlineEvent
    \/ ManualSync
    \/ \E r \in Runs : SyncAgain(r)
    \/ \E r \in Runs : RunStep(r)

\* every pending promise of a run settles and its continuation is run; the
\* connection comes back and the sync button is pressed while it is enabled
SpecLive ==
    /\ Init
    /\ [][NextLive]_vars
    /\ \A r \in Runs : WF_vars(RunStep(r))
    /\ WF_vars(OnlineEvent)
    /\ WF_vars(ManualSync)
    /\ WF_vars(\E r \in Runs : SyncAgain(r))

\* the mutations made while online, together with what can overlap them in a
\* session that starts online and may lose its connection: the refetch of a
\* manual sync and the mutations made offline (regaining the connection and
\* the drain of queued items are specified by Next: here a run that finds
\* items in the queue is still waiting for the answer to its first call)
NextDirect ==
    \/ \E m \in Muts, d \in CreateInputs : createTaskOnline(m, d)
    \/ \E m \in Muts, id \in TaskIds, u \in UpdateInputs : updateTaskOnline(m, id, u)
    \/ \E m \in Muts, id \in TaskIds : deleteTaskOnline(m, id)
    \/ \E m \in Muts : DirectCallOk(m)
    \/ \E m \in Muts : DirectCallFail(m)
    \/ \E d \in CreateInputs, t \in Clock : createTaskOffline(d, t)
    \/ \E id \in TaskIds, u \in UpdateInputs, t \in Clock : updateTaskOffline(id, u, t)
    \/ \E id \in TaskIds, t \in Clock : deleteTaskOffline(id, t)
    \/ OfflineEvent
    \/ ManualSync
    \/ \E r \in Runs : RunGetPending(r)
    \/ \E f \in Fetchers : FetchApiOk(f)
    \/ \E f \in Fetchers : FetchApiFail(f)
    \/ \E f \in Fetchers : FetchSave(f)
    \/ \E f \in Fetchers : FetchMeta(f)
    \/ \E f \in Fetchers : FetchLocal(f)
    \/ \E f \in Fetchers : FetchLocalMeta(f)
    \/ \E f \in Fetchers : FetchFallback(f)

SpecDirect == Init /\ [][NextDirect]_vars

TypeOK ==
    /\ isOnline \in BOOLEAN
    /\ isSyncing \in BOOLEAN
    /\ now \in 0..MaxClock
    /\ nextQueueId \in 1..(MaxQueue + 1)
    /\ DOMAIN syncQueue \subseteq 1..MaxQueue

\* ------------------------------------------------------------------ claims
IsPending(row) == row._syncStatus \in {"pending", "error"}

\* C1 (P3, as claimed): whenever the transaction of saveAllToLocal is about to
\* commit, every pending or error row of the tasks table is present and
\* unmodified after it, also when the fetched set holds a record with the
\* same id, and the synced rows after it are exactly the fetched set.
C1_RefreshPreservesPending ==
    \A f \in Fetchers :
        fetches[f].pc = "save" =>
            LET after == saveAllToLocal(dbTasks, fetches[f].data, now)
            IN  /\ \A id \in DOMAIN dbTasks :
                      IsPending(dbTasks[id]) =>
                          id \in DOMAIN after /\ after[id] = dbTasks[id]
                /\ { after[id].id : id \in { k \in DOMAIN after : after[k]._syncStatus = "synced" } }
                     = { fetches[f].data[i].id : i \in DOMAIN fetches[f].data }

\* C2 (P2, as claimed): once the CREATE case has put the row (the run is about
\* to ack the item), no row has the temporary id, one row has the remote id,
\* and its name and status are those of the local row as it was just before.
C2_IdRewriteKeepsFields ==
    \A r \in Runs :
        (runs[r].pc = "ack" /\ Item(r).type = "CREATE") =>
            /\ Item(r).localId \notin DOMAIN dbTasks
            /\ runs[r].newId \in DOMAIN dbTasks
            /\ runs[r].before # NoRow =>
                  /\ dbTasks[runs[r].newId].name = runs[r].before.name
                  /\ dbTasks[runs[r].newId].status = runs[r].before.status

\* C3 (as claimed): at most one invocation of syncPendingChanges is between
\* its start and its finally block.
C3_OneRunAtATime == Cardinality(ActiveRuns) <= 1

\* C4 (Scenario C, as claimed): an offline-to-online transition that arrives
\* while a run is in progress starts no run at that moment; the additional
\* run waits for the run in progress to complete.
C4_FlapIsCoalesced ==
    [][ (~isOnline /\ isOnline' /\ ActiveRuns # {}) => NumStarted' = NumStarted ]_vars

\* C5 (as claimed): an 'online' event delivered while offline and with no run
\* in progress starts exactly one run, all listeners counted.
C5_OneRunPerTransition ==
    [][ (~isOnline /\ isOnline' /\ ActiveRuns = {}) => NumStarted' = NumStarted + 1 ]_vars

\* the items of a run's snapshot before position k that create the entity
\* that item k refers to
CreatesBefore(r, k) ==
    { j \in 1..(k - 1) : /\ runs[r].snap[j].type = "CREATE"
                         /\ runs[r].snap[j].localId = runs[r].snap[k].recordId }

C7_QueueIdsDurable ==
    /\ \A k \in DOMAIN syncQueue :
          IF syncQueue[k].type = "CREATE"
          THEN IsLocalId(syncQueue[k].recordId)
          ELSE ~IsLocalId(syncQueue[k].recordId)
    /\ \A r \in Runs :
          (runs[r].pc = "call" /\ Item(r).type # "CREATE") => ~IsLocalId(Item(r).recordId)

\* C8 (as claimed): between operations (no run in progress) every pending row
\* of the tasks table has exactly one queue item referencing it.
C8_OneItemPerPendingRow ==
    ActiveRuns = {} =>
        \A id \in DOMAIN dbTasks :
            dbTasks[id]._syncStatus = "pending" =>
                Cardinality({ k \in DOMAIN syncQueue : syncQueue[k].recordId = id }) = 1

\* C9 (as claimed): reconciliation removes an item only in the step that
\* follows the acknowledged call of that item, and the step that follows a
\* failed call leaves the item queued with attempts one higher than before
\* and lastError set to the failure message.
C9_AckAfterSuccessFailKeeps ==
    [][ /\ \A k \in DOMAIN syncQueue \ DOMAIN syncQueue' :
              \E r \in Runs : runs[r].pc = "ack" /\ Item(r).id = k
        /\ \A r \in Runs :
              (runs[r].pc = "fail" /\ runs'[r].pc # "fail") =>
                  /\ Item(r).id \in DOMAIN syncQueue
                  /\ Item(r).id \in DOMAIN syncQueue'
                  /\ syncQueue'[Item(r).id].attempts = syncQueue[Item(r).id].attempts + 1
                  /\ syncQueue'[Item(r).id].lastError = runs[r].err
      ]_vars

\* C10 (P1): for the queue of every reachable state and every item id,
\* removing the id twice gives the queue that removing it once gives, and
\* removing an absent id gives the queue unchanged.
C10_AckIdempotent ==
    \A id \in 1..(MaxQueue + 1) :
        /\ removeSyncQueueItem(removeSyncQueueItem(syncQueue, id), id)
             = removeSyncQueueItem(syncQueue, id)
        /\ id \notin DOMAIN syncQueue => removeSyncQueueItem(syncQueue, id) = syncQueue
        /\ DOMAIN removeSyncQueueItem(syncQueue, id) = DOMAIN syncQueue \ {id}

\* two runs have each acked the same item, one after the other, and another
\* item is still queued
C10_Witness ==
    \E r1, r2 \in Runs :
        /\ r1 # r2
        /\ \E j \in DOMAIN runs[r1].done, k \in DOMAIN runs[r2].done :
              /\ runs[r1].snap[j].id = runs[r2].snap[k].id
              /\ runs[r1].done[j] = "ok"
              /\ runs[r2].done[k] = "ok"
              /\ runs[r1].snap[j].id \notin DOMAIN syncQueue
        /\ syncQueue # EmptyTable

\* the queue items that reference the task id (as recordId or as localId)
ItemsOf(q, id) == { k \in DOMAIN q : q[k].recordId = id \/ q[k].localId = id }

\* C12 (P6, as claimed): a step of deleteTask made offline on a task whose row
\* is pending with a temporary id and whose only queue item is its own CREATE
\* removes the row and that queue item, completes without error (the task
\* leaves the in-memory collection), so that no later run calls the gateway.
C12_DeleteUnsyncedRemovesItem ==
    [][ \A id \in TaskIds :
          ( /\ ~isOnline
            /\ IsLocalOnly(dbTasks, id)
            /\ \E k \in DOMAIN syncQueue :
                  ItemsOf(syncQueue, id) = {k} /\ syncQueue[k].type = "CREATE"
            /\ runs' = runs /\ fetches' = fetches
            /\ id \notin DOMAIN dbTasks' )
          => /\ ItemsOf(syncQueue', id) = {}
             /\ id \notin { tasks'[i].id : i \in DOMAIN tasks' }
      ]_vars

\* run r, the one run started so far, is returning from a drain of the single
\* item c, a CREATE that the remote accepted, and nothing was enqueued after c
DrainedOneCreate(r) ==
    /\ \A q \in Runs \ {r} : runs[q].pc = "idle"
    /\ runs[r].pc = "fetch"
    /\ Len(runs[r].snap) = 1
    /\ runs[r].snap[1].type = "CREATE"
    /\ runs[r].done = << "ok" >>
    /\ nextQueueId = runs[r].snap[1].id + 1

C16_RefetchKeepsPendingVisible ==
    [][ \A f \in Fetchers :
          (fetches[f].pc = "meta" /\ fetches'[f].pc = "done") =>
              LET fetched == { fetches[f].data[i].id : i \in DOMAIN fetches[f].data }
                  pending == { id \in DOMAIN dbTasks' : IsPending(dbTasks'[id]) }
              IN  { tasks'[i].id : i \in DOMAIN tasks' } = fetched \cup pending
      ]_vars

\* the sync state in the claimed precedence: offline, syncing, pending, error
ClaimedSyncState(online, syncing, pendingCount, error) ==
    IF ~online THEN "offline"
    ELSE IF syncing THEN "syncing"
    ELSE IF pendingCount > 0 THEN "pending"
    ELSE IF error # Null THEN "error"
    ELSE "synced"

\* C17 (as claimed): for the store fields of every reachable state and every
\* pending count the indicator can hold, getSyncState gives the state of the
\* claimed precedence order: offline, else syncing, else pending, else error,
\* else synced.
C17_SyncStatePrecedence ==
    \A n \in 0..MaxQueue :
        getSyncState(isOnline, isSyncing, n, syncError)
            = ClaimedSyncState(isOnline, isSyncing, n, syncError)

\* C19 (as claimed): when a run returns in which an item failed and is still
\* queued, the observable sync fields show an error: syncError is set, or a
\* row of the tasks table has syncStatus error.
C19_StuckItemSurfaces ==
    [][ \A r \in Runs :
          ( /\ runs[r].pc = "fetch" /\ runs'[r].pc = "done"
            /\ \E j \in DOMAIN runs[r].done :
                  runs[r].done[j] = "fail" /\ runs[r].snap[j].id \in DOMAIN syncQueue' )
          => \/ syncError' # Null
             \/ \E id \in DOMAIN dbTasks' : dbTasks'[id]._syncStatus = "error"
      ]_vars

\* C20 (as claimed): every step of a run that found the queue empty, taken
\* while the queue is empty, makes no create, update or delete at the remote,
\* leaves the queue empty and every pending or error row of the tasks table
\* as it was, and the run's last step leaves isSyncing false.
C20_EmptyQueueRunIsNoOp ==
    [][ \A r \in Runs :
          ( /\ runs[r].pc = "fetch" /\ runs[r].snap = << >>
            /\ syncQueue = EmptyTable
            /\ fetches'[r] # fetches[r] )
          => /\ remote' = remote
             /\ syncQueue' = EmptyTable
             /\ \A id \in DOMAIN dbTasks :
                   IsPending(dbTasks[id]) =>
                       id \in DOMAIN dbTasks' /\ dbTasks'[id] = dbTasks[id]
             /\ runs'[r].pc = "done" => ~isSyncing'
      ]_vars

\* C18 (as claimed): any two requests handed to airtableFetch are at least
\* MIN_REQUEST_INTERVAL apart, also when their invocations of
\* rateLimitedFetch started at the same time.
C18_GlobalSpacing ==
    \A c, d \in Reqs :
        (c # d /\ requests[c].pc = "sent" /\ requests[d].pc = "sent") =>
            \/ requests[c].at - requests[d].at >= MIN_REQUEST_INTERVAL
            \/ requests[d].at - requests[c].at >= MIN_REQUEST_INTERVAL

\* the mutation m made online returns from its catch block in this step
DirectFails(m) == muts[m].pc = "call" /\ muts'[m].pc = "failed"

C14_ScenarioB ==
    [][ \A m \in Muts :
          /\ (muts[m].pc = "idle" /\ muts'[m].pc = "call" /\ muts'[m].kind = "update") =>
                syncQueue' = syncQueue /\ remote' = remote
          /\ (muts[m].pc = "call" /\ muts[m].kind = "update" /\ muts'[m].pc = "done") =>
                /\ syncQueue' = syncQueue
                /\ remote' = [ remote EXCEPT ![muts[m].taskId] = UpdateFields(@, muts[m].input) ]
                /\ \A i \in DOMAIN tasks' :
                      tasks'[i].id = muts[m].taskId =>
                          tasks'[i] = Merge(tasks'[i], muts[m].input)
      ]_vars

\* C15 (as claimed): a run ends only after every item of its snapshot was
\* dispatched, whatever failed on the way, a write to the Local Store
\* included: when a run reaches its finally block, the last item the loop
\* dispatched is the last item of the snapshot.
C15_FailureNeverAbortsDrain ==
    [][ \A r \in Runs :
          (runs[r].pc \notin {"idle", "done"} /\ runs'[r].pc = "done") =>
              runs[r].idx = Len(runs[r].snap)
      ]_vars

\* C22 (as claimed): in every state, a run whose CREATE case has deleted the
\* row with the temporary id has also inserted the row with the remote-issued
\* id: the temporary row is never gone while the remote-id row is missing.
C22_IdRewriteAtomic ==
    \A r \in Runs :
        (runs[r].before # NoRow /\ Item(r).localId \notin DOMAIN dbTasks) =>
            runs[r].newId \in DOMAIN dbTasks

\* C23 (as claimed): the step that acks an UPDATE item leaves the referenced
\* row synced, the step that acks a DELETE item leaves the row absent, and
\* when a run returns in which every item was acked no row of the tasks table
\* is pending, whether its refetch succeeded or failed.
C23_AckLeavesRowSynced ==
    [][ \A r \in Runs :
          /\ (runs[r].pc = "ack" /\ runs'[r].done = Append(runs[r].done, "ok")) =>
                /\ (Item(r).type = "UPDATE" /\ Item(r).recordId \in DOMAIN dbTasks') =>
                      dbTasks'[Item(r).recordId]._syncStatus = "synced"
                /\ Item(r).type = "DELETE" => Item(r).recordId \notin DOMAIN dbTasks'
          /\ ( /\ runs[r].pc = "fetch" /\ runs'[r].pc = "done"
               /\ runs[r].snap # << >>
               /\ \A j \in DOMAIN runs[r].done : runs[r].done[j] = "ok" ) =>
                \A id \in DOMAIN dbTasks' : dbTasks'[id]._syncStatus # "pending"
      ]_vars

\* C27 (as claimed): isSyncing is true exactly in the states in which some
\* invocation of syncPendingChanges is between its start and its finally
\* block, also when invocations overlap.
C27_IsSyncingTracksRuns == isSyncing <=> ActiveRuns # {}

\* C28 (as claimed): the remote store has accepted at most one create for
\* each CREATE item ever enqueued: the records it has issued to reconciliation
\* (all but the one of the initial fetch) are no more than the temporary ids
\* minted, and no two runs hold a remote-issued id for the same item.
C28_OneRemoteCreatePerItem ==
    /\ nextRemote - 2 <= nextLocal - 1
    /\ \A r1, r2 \in Runs :
          ( /\ r1 # r2
            /\ runs[r1].newId # NoId /\ runs[r2].newId # NoId
            /\ Item(r1).id = Item(r2).id ) => runs[r1].newId = runs[r2].newId

\* id, name and status of the entries of a sequence of tasks, and of the rows
\* of a table
Shown(ts)    == { << ts[i].id, ts[i].name, ts[i].status >> : i \in DOMAIN ts }
ShownRows(t) == { << t[id].id, t[id].name, t[id].status >> : id \in DOMAIN t }

\* C24 (as claimed): the step in which the gateway call of a createTask,
\* updateTask or deleteTask made online resolves leaves the answer in the
\* tasks table as well: the created or updated record is a synced row with
\* the remote's field values, the deleted one is no row, and the rows of the
\* tasks table show the same tasks as the in-memory collection.
C24_DirectSuccessReachesLocalStore ==
    [][ \A m \in Muts :
          (muts[m].pc = "call" /\ muts'[m].pc = "done") =>
              /\ muts[m].kind = "create" =>
                    /\ RemoteId(nextRemote) \in DOMAIN dbTasks'
                    /\ dbTasks'[RemoteId(nextRemote)]._syncStatus = "synced"
                    /\ dbTasks'[RemoteId(nextRemote)].name = remote'[RemoteId(nextRemote)].name
              /\ muts[m].kind = "update" =>
                    /\ muts[m].taskId \in DOMAIN dbTasks'
                    /\ dbTasks'[muts[m].taskId]._syncStatus = "synced"
                    /\ dbTasks'[muts[m].taskId].name = remote'[muts[m].taskId].name
              /\ muts[m].kind = "delete" => muts[m].taskId \notin DOMAIN dbTasks'
              /\ ShownRows(dbTasks') = Shown(tasks')
      ]_vars

\* C25 (as claimed): every step of a createTask, updateTask or deleteTask made
\* offline (the delete of a row that is pending with a temporary id apart)
\* leaves the remote store as it is, appends exactly one queue item with
\* attempts 0 and leaves the other items as they are; after a create or an
\* update the row the item references is in the tasks table and pending,
\* after a delete it is absent.
C25_OfflineMutationIsQueued ==
    [][ ( /\ ~isOnline
          /\ muts' = muts /\ runs' = runs /\ fetches' = fetches
          /\ ~ \E id \in DOMAIN dbTasks \ DOMAIN dbTasks' : IsLocalOnly(dbTasks, id) )
        => /\ remote' = remote /\ nextRemote' = nextRemote
           /\ nextQueueId' = nextQueueId + 1
           /\ DOMAIN syncQueue' = DOMAIN syncQueue \cup {nextQueueId}
           /\ \A k \in DOMAIN syncQueue : syncQueue'[k] = syncQueue[k]
           /\ syncQueue'[nextQueueId].attempts = 0
           /\ syncQueue'[nextQueueId].type \in {"CREATE", "UPDATE"} =>
                 /\ syncQueue'[nextQueueId].recordId \in DOMAIN dbTasks'
                 /\ dbTasks'[syncQueue'[nextQueueId].recordId]._syncStatus = "pending"
           /\ syncQueue'[nextQueueId].type = "DELETE" =>
                 syncQueue'[nextQueueId].recordId \notin DOMAIN dbTasks'
      ]_vars

\* C29 (as claimed): in a session that has stayed online and in which no
\* refetch has failed, once every mutation and every refetch has completed
\* the in-memory tasks show the records of the remote store, which hold the
\* effect of every mutation that succeeded.
C29_NoChangeLostToStaleSnapshot ==
    ( /\ isOnline /\ syncError = Null
      /\ ActiveRuns = {}
      /\ \A m \in Muts : muts[m].pc # "call" )
    => Shown(tasks) = { << id, remote[id].name, remote[id].status >> : id \in DOMAIN remote }

C30_OfflineSyncIsNoOp ==
    [][ \A r \in Runs :
          (~isOnline /\ ~isOnline' /\ runs[r].pc = "idle" /\ runs'[r].pc # "idle") =>
              /\ r \notin ActiveRuns'
              /\ remote' = remote /\ nextRemote' = nextRemote
              /\ syncQueue' = syncQueue /\ nextQueueId' = nextQueueId
              /\ dbTasks' = dbTasks /\ dbLastSync' = dbLastSync
              /\ tasks' = tasks /\ syncError' = syncError
              /\ isSyncing' = isSyncing
              /\ fetches' = fetches
      ]_vars

\* an invocation made offline has returned while the queue holds an item
\* that failed before (attempts and lastError set) and the tasks table a
\* pending row
C30_Witness ==
    /\ ~isOnline
    /\ \E r \in Runs : runs[r].pc = "refused"
    /\ \E k \in DOMAIN syncQueue :
          syncQueue[k].attempts > 0 /\ syncQueue[k].lastError # Absent
    /\ \E id \in DOMAIN dbTasks : dbTasks[id]._syncStatus = "pending"

\* the queue holds the CREATE item of a task created offline and an UPDATE or
\* DELETE item enqueued for the same task
DependentQueued ==
    \E j, k \in DOMAIN syncQueue :
        /\ syncQueue[j].type = "CREATE"
        /\ syncQueue[k].type \in {"UPDATE", "DELETE"}
        /\ syncQueue[k].recordId = syncQueue[j].localId

\* C21 (as claimed): once the queue holds the CREATE of a task created
\* offline and a dependent UPDATE or DELETE of it, the runs that follow,
\* against a remote store that accepts every call addressed to a record it
\* holds, eventually ack both: the queue eventually becomes empty.
C21_DependentEventuallyAcked == DependentQueued ~> (syncQueue = EmptyTable)

====
